---- MODULE Spec2Model ----
(***************************************************************************)
(* Poll relay and vote tracking of botka (src/src/modules/polls.rs), with  *)
(* the typed option store and id wrappers of src/src/db.rs and the rows of *)
(* src/src/models.rs.                                                      *)
(*                                                                         *)
(* Every incoming platform update is handled by its own task.  A task      *)
(* advances from one suspension point (.await) to the next in one step;    *)
(* the code between two suspension points, a database transaction          *)
(* included (it runs synchronously while the task holds env.conn()), is    *)
(* one atomic step.                                                        *)
(***************************************************************************)
EXTENDS Integers, Sequences, FiniteSets, TLC

(***************************************************************************)
(* Bounds of the model.                                                    *)
(***************************************************************************)
\* messages delivered to the bot (each one is a poll post, a forward, ...)
MaxMessages == 2
\* poll-answer updates delivered to the bot
MaxAnswers == 2
\* user ids are 1..MaxUser
MaxUser == 3
\* rows of the residents table: users 1..NumResidents
NumResidents == 2
\* how many attributes of a delivered message may differ from a base message
MaxDeviations == 1
\* calls made on the option store
MaxOptionCalls == 3
\* the integer fields of an option value are 1..MaxOptionValue
MaxOptionValue == 2

Users == 1..MaxUser
NoUser == 0

\* schema::residents, in rowid order (models::Resident): the residency of
\* users 1..NumResidents, none of them ended
Residents ==
    [i \in 1..NumResidents |-> [rowid |-> i, tg_id |-> i, end_date |-> "None"]]

\* schema::tg_users (models::TgUser): user 1 has a public handle, user 2 has
\* a cached profile without a handle, user 3 has no cached profile, the
\* others have a handle.
TgUsers(u) ==
    IF u = 3 THEN [present |-> FALSE, username |-> ""]
    ELSE IF u = 2 THEN [present |-> TRUE, username |-> ""]
    ELSE [present |-> TRUE, username |-> "user" \o ToString(u)]

(***************************************************************************)
(* Vec<DbUserId> operations used by handle_poll_answer.                    *)
(***************************************************************************)
RECURSIVE Insert(_, _)
Insert(x, s) ==
    IF s = <<>> THEN <<x>>
    ELSE IF x < Head(s) THEN <<x>> \o s
    ELSE <<Head(s)>> \o Insert(x, Tail(s))

\* Vec::sort: the ascending permutation of v
RECURSIVE Sort(_)
Sort(v) == IF v = <<>> THEN <<>> ELSE Insert(Head(v), Sort(Tail(v)))

\* Vec::dedup: removes consecutive repeated elements
RECURSIVE Dedup(_)
Dedup(v) ==
    IF Len(v) <= 1 THEN v
    ELSE IF v[1] = v[2] THEN Dedup(Tail(v))
    ELSE <<v[1]>> \o Dedup(Tail(v))

\* Vec::retain(|&u| u != id)
Retain(v, id) == SelectSeq(v, LAMBDA u : u # id)

\* Vec::push
Push(v, id) == Append(v, id)

Range(s) == {s[i] : i \in DOMAIN s}

(***************************************************************************)
(* db.rs: the id wrappers.  UserId(u64) -> DbUserId(i64) is an `as` cast,  *)
(* value preserving below 2^63; MessageId(i32) and ChatId(i64) keep their  *)
(* width.                                                                  *)
(***************************************************************************)
DbUserIdFrom(id) == id
DbChatIdFrom(id) == id
DbMessageIdFrom(id) == id
MessageIdFrom(db_id) == db_id

(***************************************************************************)
(* utils::Sqlizer<Vec<DbUserId>>: the roster column holds the JSON text of *)
(* the vector.  A blob is the sequence of the text's tokens.               *)
(***************************************************************************)
RECURSIVE JsonItems(_)
JsonItems(v) ==
    IF v = <<>> THEN <<>>
    ELSE IF Len(v) = 1 THEN <<ToString(v[1])>>
    ELSE <<ToString(v[1]), ",">> \o JsonItems(Tail(v))

\* Sqlizer::new(v).unwrap(): encoding a vector of integers cannot fail
SqlizerNew(v) == <<"[">> \o JsonItems(v) \o <<"]">>

\* the integers a token can denote
IdTokens == 0..(MaxUser + 1)

IsIntToken(tok) == \E n \in IdTokens : ToString(n) = tok
ParseInt(tok) == CHOOSE n \in IdTokens : ToString(n) = tok

\* the tokens between the brackets: number (, number)*
RECURSIVE WellFormedItems(_)
WellFormedItems(toks) ==
    IF toks = <<>> THEN FALSE
    ELSE IF Len(toks) = 1 THEN IsIntToken(toks[1])
    ELSE /\ IsIntToken(toks[1])
         /\ toks[2] = ","
         /\ WellFormedItems(SubSeq(toks, 3, Len(toks)))

RECURSIVE ParseItems(_)
ParseItems(toks) ==
    IF Len(toks) <= 1 THEN <<ParseInt(toks[1])>>
    ELSE <<ParseInt(toks[1])>> \o ParseItems(SubSeq(toks, 3, Len(toks)))

\* reading the column back (FromSql): Ok(vector) or a DeserializationError
SqlizerDecode(blob) ==
    IF /\ Len(blob) >= 2
       /\ blob[1] = "["
       /\ blob[Len(blob)] = "]"
       /\ \/ Len(blob) = 2
          \/ WellFormedItems(SubSeq(blob, 2, Len(blob) - 1))
    THEN [ok |-> TRUE,
          value |-> IF Len(blob) = 2 THEN <<>>
                    ELSE ParseItems(SubSeq(blob, 2, Len(blob) - 1))]
    ELSE [ok |-> FALSE, value |-> <<>>]

\* a stored text that is not the JSON of a vector (a truncated write)
CorruptBlob == <<"[", "1">>

(***************************************************************************)
(* db.rs: the typed option store.  The value column of an options row      *)
(* holds the JSON text of the value; a text is the sequence of its tokens. *)
(***************************************************************************)
\* options declared with config_option_def! (models.rs, lines 176-178)
OptionKeys == {"debate", "needs_last_pin"}

\* the values of the type bound to a key: models::Debate for debate,
\* models::NeedsLastPin (the thread id pair flattened) for needs_last_pin
OptionValues(key) ==
    IF key = "debate"
    THEN [started_at : 1..MaxOptionValue, description : {"", "budget"}]
    ELSE [chat : {1}, thread : {1}, message_id : 1..MaxOptionValue]

Quote(str) == "\"" \o str \o "\""

\* serde_json::to_string(value), line 67
ToJson(key, value) ==
    IF key = "debate"
    THEN <<"{", "\"started_at\":", ToString(value.started_at), ",",
           "\"description\":", Quote(value.description), "}">>
    ELSE <<"{", "\"chat\":", ToString(value.chat), ",",
           "\"thread\":", ToString(value.thread), ",",
           "\"message_id\":", "{", "\"message_id\":",
           ToString(value.message_id), "}", "}">>

\* the integers and the strings a token can denote
OptionInts == 0..(MaxOptionValue + 1)
OptionStrings == {"", "budget", "1"}

IsOptionInt(tok) == \E n \in OptionInts : ToString(n) = tok
ParseOptionInt(tok) == CHOOSE n \in OptionInts : ToString(n) = tok
IsOptionString(tok) == \E str \in OptionStrings : Quote(str) = tok
ParseOptionString(tok) == CHOOSE str \in OptionStrings : Quote(str) = tok

\* serde_json::from_str::<T>(text), line 48: Ok(value) or an error; the
\* empty text is an error for both types
FromJson(key, text) ==
    IF key = "debate"
    THEN IF /\ Len(text) = 7
            /\ text[1] = "{" /\ text[2] = "\"started_at\":"
            /\ IsOptionInt(text[3]) /\ text[4] = ","
            /\ text[5] = "\"description\":" /\ IsOptionString(text[6])
            /\ text[7] = "}"
         THEN [ok |-> TRUE,
               value |-> [started_at |-> ParseOptionInt(text[3]),
                          description |-> ParseOptionString(text[6])]]
         ELSE [ok |-> FALSE, value |-> <<>>]
    ELSE IF /\ Len(text) = 13
            /\ text[1] = "{" /\ text[2] = "\"chat\":"
            /\ IsOptionInt(text[3]) /\ text[4] = ","
            /\ text[5] = "\"thread\":" /\ IsOptionInt(text[6])
            /\ text[7] = "," /\ text[8] = "\"message_id\":"
            /\ text[9] = "{" /\ text[10] = "\"message_id\":"
            /\ IsOptionInt(text[11]) /\ text[12] = "}" /\ text[13] = "}"
         THEN [ok |-> TRUE,
               value |-> [chat |-> ParseOptionInt(text[3]),
                          thread |-> ParseOptionInt(text[6]),
                          message_id |-> ParseOptionInt(text[11])]]
         ELSE [ok |-> FALSE, value |-> <<>>]

\* a stored text written for an older shape of the type: no field of the
\* current types
StaleValue == <<"{", "\"started\":", "1", "}">>

\* diesel::replace_into(options): name is the primary key of the table, a
\* row of the same name is replaced
ReplaceInto(rows, row) == {r \in rows : r.name # row.name} \cup {row}

\* DeleteFrom without the filter on the name: every row is deleted
DeleteFromAll(rows, key) == {}

\* diesel::delete(options.filter(name.eq(key)))
DeleteFrom(rows, key) == {r \in rows : r.name # key}

\* an Option<T> is <<>> (None) or <<value>> (Some(value))
\* ConfigOptionGet with `?` on the deserialization: the error is returned
ConfigOptionGetStrict(rows, key, query_ok) ==
    IF ~query_ok THEN [status |-> "Err", value |-> <<>>]
    ELSE LET found == {r \in rows : r.name = key}
             text == IF found = {} THEN <<>>
                     ELSE (CHOOSE r \in found : TRUE).value
             dec == FromJson(key, text)
         IN  IF dec.ok THEN [status |-> "Ok", value |-> <<dec.value>>]
             ELSE [status |-> "Err", value |-> <<>>]

\* ConfigOptionDef::get, lines 39-59: the first row of the key, its value
\* or the empty text deserialized; a failure is logged and gives Ok(None)
ConfigOptionGet(rows, key, query_ok) ==
    IF ~query_ok THEN [status |-> "Err", value |-> <<>>]
    ELSE LET found == {r \in rows : r.name = key}
             text == IF found = {} THEN <<>>
                     ELSE (CHOOSE r \in found : TRUE).value
             dec == FromJson(key, text)
         IN  IF dec.ok THEN [status |-> "Ok", value |-> <<dec.value>>]
             ELSE [status |-> "Ok", value |-> <<>>]

(***************************************************************************)
(* State.                                                                  *)
(***************************************************************************)
VARIABLES
    residents,      \* schema::residents: the models::Resident rows, by rowid
    tracked_polls,  \* schema::tracked_polls: a set of models::TrackedPoll rows
    options,        \* schema::options: a set of models::ConfigOption rows
    option_calls,   \* the calls made on the option store, with their results
    chat,           \* the platform's messages: message id -> message
    inbox,          \* the messages delivered to the bot, in order
    msg_task,       \* msg_task[k]: the task handling inbox[k]
    poll_answers,   \* the poll-answer updates delivered to the bot, in order
    answer_task,    \* answer_task[j]: the task handling poll_answers[j]
    committed,      \* the answer tasks whose transaction committed, in order
    delete_calls    \* message id -> number of delete_message calls issued

vars == <<residents, tracked_polls, options, option_calls, chat, inbox,
          msg_task, poll_answers,
          answer_task, committed, delete_calls>>

(***************************************************************************)
(* Database queries of polls.rs.                                           *)
(***************************************************************************)
\* db_find_poll: Ok(None), Ok(Some(row)) with the roster decoded, or the
\* error of loading the row (its voted_users text does not deserialize)
DbFindPoll(poll_id) ==
    LET rows == {r \in tracked_polls : r.tg_poll_id = poll_id} IN
    IF rows = {} THEN [status |-> "None"]
    ELSE LET row == CHOOSE r \in rows : TRUE
             dec == SqlizerDecode(row.voted_users)
         IN  IF dec.ok
             THEN [status |-> "Some", row |-> row, voted_users |-> dec.value]
             ELSE [status |-> "Err"]

\* db_find_non_voters: residents.tg_id NOT IN voted_users, left-joined with
\* tg_users; one (tg_id, Option<TgUser>) pair per residents row
DbFindNonVoters(voted_users) ==
    LET pending == SelectSeq(residents,
                             LAMBDA row : \A i \in DOMAIN voted_users :
                                               voted_users[i] # row.tg_id)
    IN  [i \in DOMAIN pending |->
            [tg_id |-> pending[i].tg_id, user |-> TgUsers(pending[i].tg_id)]]

(***************************************************************************)
(* Report texts.  A text is the sequence of the pieces written to it.      *)
(***************************************************************************)
\* WithUsername without the filter on the username (flat_map dropped)
WithUsernameAll(non_voters) == non_voters

\* the non-voters that have a cached profile with a username
WithUsername(non_voters) ==
    SelectSeq(non_voters,
              LAMBDA nv : nv.user.present /\ nv.user.username # "")

RECURSIVE Mentions(_)
Mentions(non_voters) ==
    IF non_voters = <<>> THEN <<>>
    ELSE <<" @", non_voters[1].user.username>> \o Mentions(Tail(non_voters))

\* ForwardText with an unknown poll read as an empty list of non-voters
ForwardTextDefault(poll_results) ==
    IF poll_results.status = "Some" /\ poll_results.non_voters # <<>>
    THEN Mentions(WithUsername(poll_results.non_voters))
    ELSE <<"Everyone voted!">>

\* hande_poll_forward, lines 155-171
ForwardText(poll_results) ==
    IF poll_results.status = "Some"
    THEN IF poll_results.non_voters = <<>>
         THEN <<"Everyone voted!">>
         ELSE Mentions(WithUsername(poll_results.non_voters))
    ELSE <<"Unknown poll">>

\* common::format_users2: a mention for each user that has a public handle
RECURSIVE FormatUsers2(_)
FormatUsers2(non_voters) ==
    IF non_voters = <<>> THEN <<>>
    ELSE (IF non_voters[1].user.present /\ non_voters[1].user.username # ""
          THEN <<"@", non_voters[1].user.username>>
          ELSE <<>>)
         \o FormatUsers2(Tail(non_voters))

\* handle_poll_answer, lines 222-231
AnswerText(non_voters, total_voters) ==
    IF non_voters = <<>>
    THEN <<"Everyone voted!">>
    ELSE <<"Voted ", ToString(total_voters), " users, ">>
         \o <<"Pending vote ", ToString(Len(non_voters)), " users: ">>
         \o FormatUsers2(non_voters)
         \o <<".\n">>

\* NewVotedUsers without the sort of line 195
NewVotedUsersUnsorted(voted_users, poll_answer) ==
    LET id == DbUserIdFrom(poll_answer.user) IN
    Dedup(IF poll_answer.option_ids = <<>>
          THEN Retain(voted_users, id)
          ELSE Push(voted_users, id))

\* NewVotedUsers starting from an empty vector instead of the stored roster
NewVotedUsersNoClone(voted_users, poll_answer) ==
    LET id == DbUserIdFrom(poll_answer.user) IN
    IF poll_answer.option_ids = <<>> THEN <<>> ELSE <<id>>

\* NewVotedUsers without the dedup of line 196
NewVotedUsersNoDedup(voted_users, poll_answer) ==
    LET id == DbUserIdFrom(poll_answer.user) IN
    Sort(IF poll_answer.option_ids = <<>>
         THEN Retain(voted_users, id)
         ELSE Push(voted_users, id))

\* handle_poll_answer, lines 189-196: the roster written back
NewVotedUsers(voted_users, poll_answer) ==
    LET id == DbUserIdFrom(poll_answer.user)
        changed == IF poll_answer.option_ids = <<>>
                   THEN Retain(voted_users, id)
                   ELSE Push(voted_users, id)
    IN  Dedup(Sort(changed))

(***************************************************************************)
(* Classification of a delivered message.                                  *)
(***************************************************************************)
\* common::Role, in ascending order
RoleRank(role) ==
    CASE role = "Stranger" -> 0
      [] role = "Resident" -> 1
      [] role = "Admin" -> 2

\* FilterPolls without the is_closed test of line 44
FilterPollsClosed(msg) ==
    IF msg.media # "poll" THEN [kind |-> "None"]
    ELSE IF /\ msg.forward = "none"
            /\ msg.total_voter_count = 0
            /\ ~msg.is_anonymous
            /\ msg.poll_type = "regular"
            /\ msg.from # NoUser
            /\ RoleRank(msg.role) >= RoleRank("Resident")
         THEN [kind |-> "New"]
    ELSE IF /\ msg.forward = "me"
            /\ msg.private
            /\ msg.from # NoUser
            /\ RoleRank(msg.role) >= RoleRank("Resident")
         THEN [kind |-> "Forward"]
    ELSE [kind |-> "None"]

\* FilterPolls without the is_private test of line 57
FilterPollsAnyChat(msg) ==
    IF msg.media # "poll" THEN [kind |-> "None"]
    ELSE IF /\ msg.forward = "none"
            /\ msg.total_voter_count = 0
            /\ ~msg.is_closed
            /\ ~msg.is_anonymous
            /\ msg.poll_type = "regular"
            /\ msg.from # NoUser
            /\ RoleRank(msg.role) >= RoleRank("Resident")
         THEN [kind |-> "New"]
    ELSE IF /\ msg.forward = "me"
            /\ msg.from # NoUser
            /\ RoleRank(msg.role) >= RoleRank("Resident")
         THEN [kind |-> "Forward"]
    ELSE [kind |-> "None"]

\* filter_polls: None, New(poll) or Forward(poll id)
FilterPolls(msg) ==
    IF msg.media # "poll" THEN [kind |-> "None"]
    ELSE IF /\ msg.forward = "none"
            /\ msg.total_voter_count = 0
            /\ ~msg.is_closed
            /\ ~msg.is_anonymous
            /\ msg.poll_type = "regular"
            /\ msg.from # NoUser
            /\ RoleRank(msg.role) >= RoleRank("Resident")
         THEN [kind |-> "New"]
    ELSE IF /\ msg.forward = "me"
            /\ msg.private
            /\ msg.from # NoUser
            /\ RoleRank(msg.role) >= RoleRank("Resident")
         THEN [kind |-> "Forward"]
    ELSE [kind |-> "None"]

(***************************************************************************)
(* The messages the platform may deliver.                                  *)
(***************************************************************************)
\* a poll a resident posts in the group chat: filter_polls accepts it as New
NewBase ==
    [media |-> "poll", forward |-> "none", total_voter_count |-> 0,
     is_closed |-> FALSE, is_anonymous |-> FALSE, poll_type |-> "regular",
     private |-> FALSE, from |-> 1, role |-> "Resident", poll_id |-> 0]

\* a poll of the bot that a resident forwards to the bot in private
ForwardBase == [NewBase EXCEPT !.forward = "me", !.private = TRUE]

\* the attributes filter_polls reads of every message, and of a poll
MessageFields == {"media", "forward", "private", "from", "role"}
PollFields == {"total_voter_count", "is_closed", "is_anonymous", "poll_type"}

Deviations(m, base, fields) == Cardinality({f \in fields : m[f] # base[f]})

\* poll_id is the id of the forwarded poll when the bot sent it, 0 otherwise
AllMessages ==
    [media : {"poll", "text"},
     forward : {"none", "me", "other_user", "chat"},
     total_voter_count : {0, 1},
     is_closed : BOOLEAN,
     is_anonymous : BOOLEAN,
     poll_type : {"regular", "quiz"},
     private : BOOLEAN,
     from : {NoUser, 1},
     role : {"Stranger", "Resident", "Admin"},
     poll_id : 0..MaxMessages]

Messages ==
    {m \in AllMessages :
        /\ (m.poll_id # 0) <=> (m.forward = "me" /\ m.media = "poll")
        /\ \/ Deviations(m, NewBase, MessageFields \cup PollFields)
                 <= MaxDeviations
           \/ /\ Deviations(m, ForwardBase, MessageFields) <= MaxDeviations
              /\ Deviations(m, ForwardBase, PollFields) = 0}

\* the chat a message is in
ChatIdOf(msg) == IF msg.private THEN 2 ELSE 1

\* platform-assigned ids: the message inbox[k], the poll republished for
\* it, the status report of that poll, the reply to a forward
OrigId(k) == 4 * k - 3
NewPollId(k) == 4 * k - 2
InfoId(k) == 4 * k - 1
ReplyId(k) == 4 * k
\* the poll id the platform gives the poll republished for inbox[k]
PollIdOf(k) == k

MessageIds == 1..MaxMessages
AnswerIds == 1..MaxAnswers

\* option_ids of a poll answer: empty is a retraction
OptionIdSets == {<<>>, <<0>>}

\* the polls of the bot that are in a chat
LivePolls == {chat[i].poll_id : i \in {i \in DOMAIN chat :
                                  chat[i].from = "bot" /\ chat[i].kind = "poll"}}

Remove(f, id) == [i \in DOMAIN f \ {id} |-> f[i]]

Idle == [kind |-> "idle", pc |-> "idle", at |-> "-", result |-> "-"]

Init ==
    /\ residents = Residents
    /\ tracked_polls = {}
    /\ options = {}
    /\ option_calls = <<>>
    /\ chat = <<>>
    /\ inbox = <<>>
    /\ msg_task = [k \in MessageIds |-> Idle]
    /\ poll_answers = <<>>
    /\ answer_task = [j \in AnswerIds |-> Idle]
    /\ committed = <<>>
    /\ delete_calls = [i \in 1..ReplyId(MaxMessages) |-> 0]

(***************************************************************************)
(* Dispatch of a message: message_handler, filter_polls, handle_message.   *)
(***************************************************************************)
Deliver(m) ==
    LET k == Len(inbox) + 1
        kind == FilterPolls(m).kind
    IN  /\ k <= MaxMessages
        /\ m.poll_id # 0 => m.poll_id \in LivePolls
        /\ inbox' = Append(inbox, m)
        /\ chat' = (OrigId(k) :>
                      [chat_id |-> ChatIdOf(m), from |-> "user",
                       kind |-> m.media, poll_id |-> m.poll_id,
                       text |-> <<>>, reply_to |-> 0])
                   @@ chat
        /\ msg_task' =
             [msg_task EXCEPT ![k] =
                CASE kind = "New" ->
                       [kind |-> "New", pc |-> "send_poll", at |-> "-",
                        result |-> "-"]
                  [] kind = "Forward" ->
                       [kind |-> "Forward", pc |-> "txn", at |-> "-",
                        result |-> "-", text |-> <<>>]
                  [] OTHER ->
                       [kind |-> "None", pc |-> "done", at |-> "-",
                        result |-> "-"]]
        /\ UNCHANGED <<residents, tracked_polls, options, option_calls,
                       poll_answers, answer_task,
                       committed,
                   delete_calls>>

(***************************************************************************)
(* intercept_new_poll, one action per suspension point.                    *)
(***************************************************************************)
\* the task returns `result`; `at` keeps the point it returned from
Finish(task, result) ==
    [task EXCEPT !.pc = "done", !.at = task.pc, !.result = result]

\* lines 86-112: bot.send_poll(...).await?, then the kind of the answer
SendPoll(k) ==
    /\ msg_task[k].kind = "New"
    /\ msg_task[k].pc = "send_poll"
    /\ \E outcome \in {"poll", "other", "error"} :
         /\ chat' =
              IF outcome = "error" THEN chat
              ELSE (NewPollId(k) :>
                      [chat_id |-> ChatIdOf(inbox[k]), from |-> "bot",
                       kind |-> IF outcome = "poll" THEN "poll" ELSE "other",
                       poll_id |-> IF outcome = "poll" THEN PollIdOf(k) ELSE 0,
                       text |-> <<>>, reply_to |-> 0])
                   @@ chat
         /\ msg_task' =
              [msg_task EXCEPT ![k] =
                 CASE outcome = "poll" -> [@ EXCEPT !.pc = "delete_orig"]
                   [] outcome = "other" -> [@ EXCEPT !.pc = "delete_unexpected"]
                   [] OTHER -> Finish(@, "Err")]
    /\ UNCHANGED <<residents, tracked_polls, options, option_calls,
                   inbox, poll_answers, answer_task,
                   committed,
                   delete_calls>>

\* lines 104-111: the answer is no poll; delete the original, log a failure
DeleteUnexpected(k) ==
    /\ msg_task[k].kind = "New"
    /\ msg_task[k].pc = "delete_unexpected"
    /\ \E ok \in BOOLEAN :
         chat' = IF ok THEN Remove(chat, OrigId(k)) ELSE chat
    /\ msg_task' = [msg_task EXCEPT ![k] = Finish(@, "Ok")]
    /\ delete_calls' = [delete_calls EXCEPT ![OrigId(k)] = @ + 1]
    /\ UNCHANGED <<residents, tracked_polls, options, option_calls,
                   inbox, poll_answers, answer_task,
                   committed>>

\* line 114: bot.delete_message(msg.chat.id, msg.id).await
DeleteOriginal(k) ==
    /\ msg_task[k].kind = "New"
    /\ msg_task[k].pc = "delete_orig"
    /\ \E ok \in BOOLEAN :
         /\ chat' = IF ok THEN Remove(chat, OrigId(k)) ELSE chat
         /\ msg_task' =
              [msg_task EXCEPT ![k].pc = IF ok THEN "reply" ELSE "delete_new"]
    /\ delete_calls' = [delete_calls EXCEPT ![OrigId(k)] = @ + 1]
    /\ UNCHANGED <<residents, tracked_polls, options, option_calls,
                   inbox, poll_answers, answer_task,
                   committed>>

\* DeleteRepublished with `?` in place of log_error: a failed deletion
\* of the republished poll is returned as the task's error
DeleteRepublishedPropagates(k) ==
    /\ msg_task[k].kind = "New"
    /\ msg_task[k].pc = "delete_new"
    /\ \E ok \in BOOLEAN :
         /\ chat' = IF ok THEN Remove(chat, NewPollId(k)) ELSE chat
         /\ msg_task' =
              [msg_task EXCEPT ![k] = Finish(@, IF ok THEN "Ok" ELSE "Err")]
    /\ delete_calls' = [delete_calls EXCEPT ![NewPollId(k)] = @ + 1]
    /\ UNCHANGED <<residents, tracked_polls, options, option_calls,
                   inbox, poll_answers, answer_task,
                   committed>>

\* lines 115-120: the original could not be deleted; delete the republished
\* poll, log a failure, return Ok(())
DeleteRepublished(k) ==
    /\ msg_task[k].kind = "New"
    /\ msg_task[k].pc = "delete_new"
    /\ \E ok \in BOOLEAN :
         chat' = IF ok THEN Remove(chat, NewPollId(k)) ELSE chat
    /\ msg_task' = [msg_task EXCEPT ![k] = Finish(@, "Ok")]
    /\ delete_calls' = [delete_calls EXCEPT ![NewPollId(k)] = @ + 1]
    /\ UNCHANGED <<residents, tracked_polls, options, option_calls,
                   inbox, poll_answers, answer_task,
                   committed>>

\* ReplyPollInfo without the `?`: the row is inserted although the status
\* report could not be sent
ReplyPollInfoIgnoresError(k) ==
    /\ msg_task[k].kind = "New"
    /\ msg_task[k].pc = "reply"
    /\ \E ok \in BOOLEAN :
         chat' =
           IF ok
           THEN (InfoId(k) :>
                   [chat_id |-> ChatIdOf(inbox[k]), from |-> "bot",
                    kind |-> "text", poll_id |-> 0,
                    text |-> <<"Poll info">>, reply_to |-> NewPollId(k)])
                @@ chat
           ELSE chat
    /\ msg_task' = [msg_task EXCEPT ![k].pc = "insert"]
    /\ UNCHANGED <<residents, tracked_polls, options, option_calls,
                   inbox, poll_answers, answer_task,
                   committed, delete_calls>>

\* lines 122-125: bot.reply_message(&msg, "Poll info")
\*                   .reply_to_message_id(new_poll.id).await?
ReplyPollInfo(k) ==
    /\ msg_task[k].kind = "New"
    /\ msg_task[k].pc = "reply"
    /\ \E ok \in BOOLEAN :
         /\ chat' =
              IF ok
              THEN (InfoId(k) :>
                      [chat_id |-> ChatIdOf(inbox[k]), from |-> "bot",
                       kind |-> "text", poll_id |-> 0,
                       text |-> <<"Poll info">>, reply_to |-> NewPollId(k)])
                   @@ chat
              ELSE chat
         /\ msg_task' =
              [msg_task EXCEPT ![k] =
                 IF ok THEN [@ EXCEPT !.pc = "insert"] ELSE Finish(@, "Err")]
    /\ UNCHANGED <<residents, tracked_polls, options, option_calls,
                   inbox, poll_answers, answer_task,
                   committed,
                   delete_calls>>

\* lines 127-135: the row inserted into tracked_polls
NewTrackedPoll(k) ==
    [tg_poll_id |-> PollIdOf(k),
     creator_id |-> DbUserIdFrom(inbox[k].from),
     info_chat_id |-> DbChatIdFrom(ChatIdOf(inbox[k])),
     info_message_id |-> DbMessageIdFrom(InfoId(k)),
     voted_users |-> SqlizerNew(<<>>)]

\* lines 127-137: diesel::insert_into(tracked_polls).execute(conn)?; a row
\* with the same primary key makes the insert fail
InsertTrackedPoll(k) ==
    /\ msg_task[k].kind = "New"
    /\ msg_task[k].pc = "insert"
    /\ LET exists == \E r \in tracked_polls : r.tg_poll_id = PollIdOf(k) IN
         /\ tracked_polls' =
              IF exists THEN tracked_polls
              ELSE tracked_polls \cup {NewTrackedPoll(k)}
         /\ msg_task' =
              [msg_task EXCEPT ![k] = Finish(@, IF exists THEN "Err" ELSE "Ok")]
    /\ UNCHANGED <<residents, options, option_calls,
                   chat, inbox, poll_answers, answer_task, committed,
                   delete_calls>>

(***************************************************************************)
(* hande_poll_forward.                                                     *)
(***************************************************************************)
\* lines 146-153: the read-only transaction
ForwardPollResults(poll_id) ==
    LET db_poll == DbFindPoll(poll_id) IN
    IF db_poll.status = "Some"
    THEN [status |-> "Some",
          non_voters |-> DbFindNonVoters(db_poll.voted_users)]
    ELSE [status |-> db_poll.status]

\* lines 146-171: the transaction and the text, up to the reply's .await
ForwardTxn(k) ==
    /\ msg_task[k].kind = "Forward"
    /\ msg_task[k].pc = "txn"
    /\ LET poll_results == ForwardPollResults(inbox[k].poll_id) IN
         msg_task' =
           [msg_task EXCEPT ![k] =
              IF poll_results.status = "Err" THEN Finish(@, "Err")
              ELSE [@ EXCEPT !.pc = "reply",
                             !.text = ForwardText(poll_results)]]
    /\ UNCHANGED <<residents, tracked_polls, options, option_calls,
                   chat, inbox, poll_answers,
                   answer_task, committed,
                   delete_calls>>

\* line 173: bot.reply_message(&msg, text).await?
ForwardReply(k) ==
    /\ msg_task[k].kind = "Forward"
    /\ msg_task[k].pc = "reply"
    /\ \E ok \in BOOLEAN :
         /\ chat' =
              IF ok
              THEN (ReplyId(k) :>
                      [chat_id |-> ChatIdOf(inbox[k]), from |-> "bot",
                       kind |-> "text", poll_id |-> 0,
                       text |-> msg_task[k].text, reply_to |-> OrigId(k)])
                   @@ chat
              ELSE chat
         /\ msg_task' =
              [msg_task EXCEPT ![k] = Finish(@, IF ok THEN "Ok" ELSE "Err")]
    /\ UNCHANGED <<residents, tracked_polls, options, option_calls,
                   inbox, poll_answers, answer_task,
                   committed,
                   delete_calls>>

(***************************************************************************)
(* handle_poll_answer.                                                     *)
(***************************************************************************)
\* poll_answer_handler: a poll answer arrives for a poll of the bot
DeliverAnswer(a) ==
    LET j == Len(poll_answers) + 1 IN
    /\ j <= MaxAnswers
    /\ a.poll_id \in LivePolls
    /\ poll_answers' = Append(poll_answers, a)
    /\ answer_task' =
         [answer_task EXCEPT ![j] =
            [kind |-> "Answer", pc |-> "txn", at |-> "-", result |-> "-",
             found |-> FALSE, info_chat_id |-> 0, info_message_id |-> 0,
             text |-> <<>>]]
    /\ UNCHANGED <<residents, tracked_polls, options, option_calls,
                   chat, inbox, msg_task, committed,
                   delete_calls>>

\* UpdateVotedUsers without the filter of line 199: every row is updated
UpdateVotedUsersAll(rows, poll_id, voted_users) ==
    {[r EXCEPT !.voted_users = SqlizerNew(voted_users)] : r \in rows}

\* lines 198-204: UPDATE tracked_polls SET voted_users = ? WHERE tg_poll_id = ?
UpdateVotedUsers(rows, poll_id, voted_users) ==
    {IF r.tg_poll_id = poll_id
     THEN [r EXCEPT !.voted_users = SqlizerNew(voted_users)]
     ELSE r : r \in rows}

\* AnswerTxn with a roster that does not deserialize read as the empty
\* roster (unwrap_or_default), and a missing row created by the update
AnswerTxnLenient(j) ==
    /\ answer_task[j].pc = "txn"
    /\ LET poll_answer == poll_answers[j]
           db_poll == DbFindPoll(poll_answer.poll_id)
           stored == IF db_poll.status = "Some" THEN db_poll.voted_users
                     ELSE <<>>
           voted_users == NewVotedUsers(stored, poll_answer)
           non_voters == DbFindNonVoters(voted_users)
           row == IF db_poll.status = "None"
                  THEN [tg_poll_id |-> poll_answer.poll_id, creator_id |-> 0,
                        info_chat_id |-> 0, info_message_id |-> 0,
                        voted_users |-> SqlizerNew(<<>>)]
                  ELSE CHOOSE r \in tracked_polls :
                         r.tg_poll_id = poll_answer.poll_id
       IN  /\ tracked_polls' =
                UpdateVotedUsers(tracked_polls \cup {row}, poll_answer.poll_id,
                                 voted_users)
           /\ committed' = Append(committed, j)
           /\ answer_task' =
                [answer_task EXCEPT ![j] =
                   [@ EXCEPT !.pc = "edit",
                             !.found = TRUE,
                             !.info_chat_id = row.info_chat_id,
                             !.info_message_id = row.info_message_id,
                             !.text = AnswerText(non_voters, Len(voted_users))]]
    /\ UNCHANGED <<residents, options, option_calls, chat, inbox, msg_task,
                   poll_answers,
                   delete_calls>>

\* lines 183-231: the transaction and the text, up to the edit's .await
AnswerTxn(j) ==
    /\ answer_task[j].pc = "txn"
    /\ LET poll_answer == poll_answers[j]
           db_poll == DbFindPoll(poll_answer.poll_id)
       IN  CASE db_poll.status = "Err" ->
                  /\ answer_task' = [answer_task EXCEPT ![j] = Finish(@, "Err")]
                  /\ UNCHANGED <<tracked_polls, committed>>
             [] db_poll.status = "None" ->
                  /\ answer_task' = [answer_task EXCEPT ![j] = Finish(@, "Ok")]
                  /\ UNCHANGED <<tracked_polls, committed>>
             [] OTHER ->
                  LET voted_users ==
                          NewVotedUsers(db_poll.voted_users, poll_answer)
                      non_voters == DbFindNonVoters(voted_users)
                  IN  /\ tracked_polls' =
                           UpdateVotedUsers(tracked_polls, poll_answer.poll_id,
                                            voted_users)
                      /\ committed' = Append(committed, j)
                      /\ answer_task' =
                           [answer_task EXCEPT ![j] =
                              [@ EXCEPT
                                 !.pc = "edit",
                                 !.found = TRUE,
                                 !.info_chat_id = db_poll.row.info_chat_id,
                                 !.info_message_id = db_poll.row.info_message_id,
                                 !.text = AnswerText(non_voters,
                                                     Len(voted_users))]]
    /\ UNCHANGED <<residents, options, option_calls, chat, inbox, msg_task,
                   poll_answers,
                   delete_calls>>

\* AnswerEdit with send_message in place of edit_message_text: the report
\* is posted as a new message of the chat
AnswerEditSendsNew(j) ==
    /\ answer_task[j].pc = "edit"
    /\ \E ok \in {TRUE, FALSE} :
         /\ chat' = IF ok
                    THEN ((ReplyId(MaxMessages) + j) :>
                            [chat_id |-> answer_task[j].info_chat_id,
                             from |-> "bot", kind |-> "text", poll_id |-> 0,
                             text |-> answer_task[j].text, reply_to |-> 0])
                         @@ chat
                    ELSE chat
         /\ answer_task' =
              [answer_task EXCEPT ![j] =
                 Finish([@ EXCEPT !.text = <<>>],
                        IF ok THEN "Ok" ELSE "Err")]
    /\ UNCHANGED <<residents, tracked_polls, options, option_calls, inbox,
                   msg_task, poll_answers, committed, delete_calls>>

\* lines 233-238: bot.edit_message_text(info_chat_id, info_message_id, text)
\*                   .await?
AnswerEdit(j) ==
    /\ answer_task[j].pc = "edit"
    /\ LET id == MessageIdFrom(answer_task[j].info_message_id)
           there == /\ id \in DOMAIN chat
                    /\ chat[id].chat_id = answer_task[j].info_chat_id
       IN  \E ok \in {TRUE, FALSE} :
             /\ ok => there
             /\ chat' = IF ok
                        THEN [chat EXCEPT ![id].text = answer_task[j].text]
                        ELSE chat
             /\ answer_task' =
                  [answer_task EXCEPT ![j] =
                     Finish([@ EXCEPT !.text = <<>>],
                            IF ok THEN "Ok" ELSE "Err")]
    /\ UNCHANGED <<residents, tracked_polls, options, option_calls,
                   inbox, msg_task, poll_answers,
                   committed,
                   delete_calls>>

Answers == [poll_id : 1..MaxMessages, user : Users, option_ids : OptionIdSets]

\* a step of a task
TaskStep ==
    \/ \E k \in MessageIds :
         \/ SendPoll(k)
         \/ DeleteUnexpected(k)
         \/ DeleteOriginal(k)
         \/ DeleteRepublished(k)
         \/ ReplyPollInfo(k)
         \/ InsertTrackedPoll(k)
         \/ ForwardTxn(k)
         \/ ForwardReply(k)
    \/ \E a \in Answers : DeliverAnswer(a)
    \/ \E j \in AnswerIds : AnswerTxn(j) \/ AnswerEdit(j)

\* the messages both handlers accept, with no deviation
BaseMessages ==
    {NewBase} \cup {[ForwardBase EXCEPT !.poll_id = p] : p \in 1..MaxMessages}

\* Spec: the messages delivered are those the handlers accept
Next ==
    \/ \E m \in BaseMessages : Deliver(m)
    \/ TaskStep

Spec == Init /\ [][Next]_vars

\* SpecAny: any message of the sample is delivered
NextAny ==
    \/ \E m \in Messages : Deliver(m)
    \/ TaskStep

SpecAny == Init /\ [][NextAny]_vars

(***************************************************************************)
(* Properties.                                                             *)
(***************************************************************************)
\* the row of poll p, when there is one
HasRow(p) == \E r \in tracked_polls : r.tg_poll_id = p
RowOf(p) == CHOOSE r \in tracked_polls : r.tg_poll_id = p

\* the answers whose transaction updated the row of poll p, in commit order
CommittedOn(p) ==
    SelectSeq(committed, LAMBDA j : poll_answers[j].poll_id = p)

\* "insert the user on non-empty option_ids, remove the user on empty ones"
RECURSIVE FoldVotes(_, _)
FoldVotes(js, roster) ==
    IF js = <<>> THEN roster
    ELSE LET a == poll_answers[Head(js)] IN
         FoldVotes(Tail(js),
                   IF a.option_ids # <<>>
                   THEN roster \cup {DbUserIdFrom(a.user)}
                   ELSE roster \ {DbUserIdFrom(a.user)})

\* the members of a set of ids in ascending order
Ascending(S) ==
    IF S = {} THEN <<>>
    ELSE CHOOSE s \in [1..Cardinality(S) -> S] :
           \A i, j \in 1..Cardinality(S) : i < j => s[i] < s[j]

StrictlyAscending(v) == \A i, j \in DOMAIN v : i < j => v[i] < v[j]

\* C1: the stored roster of every tracked poll is the fold of "insert on
\* non-empty option_ids, remove on empty option_ids" over the poll answers
\* applied to it, in the order applied, stored ascending without duplicates.
C1_RosterIsFold ==
    \A r \in tracked_polls :
        r.voted_users
          = SqlizerNew(Ascending(FoldVotes(CommittedOn(r.tg_poll_id), {})))

\* C1 witness: user 2 voted, then user 1 voted, on the same poll: the
\* roster holds both, the later voter first.
C1_Witness ==
    \E r \in tracked_polls :
        LET js == CommittedOn(r.tg_poll_id) IN
        /\ Len(js) = 2
        /\ poll_answers[js[1]].user = 2 /\ poll_answers[js[1]].option_ids # <<>>
        /\ poll_answers[js[2]].user = 1 /\ poll_answers[js[2]].option_ids # <<>>
        /\ SqlizerDecode(r.voted_users).value = <<1, 2>>

\* the answer tasks delivered so far
Delivered == 1..Len(poll_answers)

\* C2: when every poll answer delivered is a vote (non-empty option_ids) of
\* a different user on the same tracked poll, then once the transactions of
\* all of them have run the stored roster holds all their users, however
\* the tasks were scheduled.
C2_NoLostVote ==
    \A p \in 1..MaxMessages :
        ( /\ Delivered # {}
          /\ \A j \in Delivered :
                /\ poll_answers[j].poll_id = p
                /\ poll_answers[j].option_ids # <<>>
                /\ answer_task[j].pc \in {"edit", "done"}
                /\ answer_task[j].found
          /\ \A i, j \in Delivered :
                i # j => poll_answers[i].user # poll_answers[j].user )
        => /\ HasRow(p)
           /\ {poll_answers[j].user : j \in Delivered}
                \subseteq Range(SqlizerDecode(RowOf(p).voted_users).value)

\* C2 witness: MaxAnswers votes of different users on one poll were in
\* flight together, each past its transaction and none returned yet.
C2_Witness ==
    /\ Len(poll_answers) = MaxAnswers
    /\ \A j \in AnswerIds :
          /\ answer_task[j].pc = "edit"
          /\ poll_answers[j].option_ids # <<>>
          /\ poll_answers[j].poll_id = poll_answers[1].poll_id
    /\ \A i, j \in AnswerIds : i # j => poll_answers[i].user # poll_answers[j].user
    /\ Len(SqlizerDecode(RowOf(poll_answers[1].poll_id).voted_users).value)
         = MaxAnswers

\* C3: the voted_users of every TrackedPoll row decodes to a vector that is
\* strictly ascending (so without duplicates).
C3_RosterStrictlyAscending ==
    \A r \in tracked_polls :
        /\ SqlizerDecode(r.voted_users).ok
        /\ StrictlyAscending(SqlizerDecode(r.voted_users).value)

\* C3 witness: a row created with the empty roster that a vote has since
\* rewritten to hold two users.
C3_Witness ==
    \E r \in tracked_polls :
        /\ Len(SqlizerDecode(r.voted_users).value) = 2
        /\ Len(CommittedOn(r.tg_poll_id)) = 2

\* the relay of inbox[k] returned from the compensating deletion: it had
\* republished the poll and could not delete the original
Compensated(k) ==
    /\ msg_task[k].kind = "New"
    /\ msg_task[k].pc = "done"
    /\ msg_task[k].at = "delete_new"

\* what C4 states besides the fate of the republished poll
C4_Aborted(k) ==
    /\ msg_task[k].result = "Ok"
    /\ ~HasRow(PollIdOf(k))
    /\ InfoId(k) \notin DOMAIN chat
    /\ OrigId(k) \in DOMAIN chat
    /\ delete_calls[OrigId(k)] = 1

\* C4 as stated: after the original could not be deleted, the republished
\* poll is gone, no row and no status report exist, the original is in
\* place, deleted once only, and the task returned Ok.
C4_Original ==
    \A k \in MessageIds :
        Compensated(k) => /\ C4_Aborted(k)
                          /\ NewPollId(k) \notin DOMAIN chat

\* C4 amended: after the original could not be deleted, the task has
\* issued exactly one deletion of the republished poll (whose failure is
\* only logged), no row and no status report exist, the original is in
\* place, its deletion was tried once, and the task returned Ok.
C4_CompensatingDelete ==
    \A k \in MessageIds :
        Compensated(k) => /\ C4_Aborted(k)
                          /\ delete_calls[NewPollId(k)] = 1

\* C4 witness: a relay that ended on the compensating deletion, which
\* removed the republished poll.
C4_Witness ==
    \E k \in MessageIds :
        /\ Compensated(k)
        /\ NewPollId(k) \notin DOMAIN chat
        /\ OrigId(k) \in DOMAIN chat

\* the status report of the poll republished for inbox[k] is in the chat
InfoSent(k) ==
    /\ InfoId(k) \in DOMAIN chat
    /\ chat[InfoId(k)].from = "bot"
    /\ chat[InfoId(k)].reply_to = NewPollId(k)

\* the relay of inbox[k] returned the error of sending the status report
InfoFailed(k) ==
    /\ msg_task[k].kind = "New"
    /\ msg_task[k].pc = "done"
    /\ msg_task[k].at = "reply"
    /\ msg_task[k].result = "Err"

\* C5 as stated: whenever the status report has been sent, or its sending
\* has failed, the TrackedPoll row of the republished poll exists.
C5_Original ==
    \A k \in MessageIds : (InfoSent(k) \/ InfoFailed(k)) => HasRow(PollIdOf(k))

\* C5 amended: the status report is sent first and the row is created
\* after it: whenever the TrackedPoll row of a republished poll exists, its
\* status report has been sent and the row holds the report's location; a
\* relay whose status report could not be sent creates no row.
C5_ReportBeforeRow ==
    \A k \in MessageIds :
        /\ HasRow(PollIdOf(k)) =>
              /\ InfoSent(k)
              /\ OrigId(k) \notin DOMAIN chat
              /\ RowOf(PollIdOf(k)).info_message_id = DbMessageIdFrom(InfoId(k))
              /\ RowOf(PollIdOf(k)).info_chat_id
                   = DbChatIdFrom(chat[InfoId(k)].chat_id)
        /\ InfoFailed(k) => ~HasRow(PollIdOf(k))

\* C5 witness: a relay that has inserted its row and returned Ok.
C5_Witness ==
    \E k \in MessageIds :
        /\ msg_task[k].kind = "New"
        /\ msg_task[k].pc = "done"
        /\ msg_task[k].at = "insert"
        /\ msg_task[k].result = "Ok"
        /\ HasRow(PollIdOf(k))

(***************************************************************************)
(* Faults of the store: a second specification.                            *)
(***************************************************************************)
\* the voted_users text of a row is damaged outside the program
CorruptRoster(p) ==
    /\ HasRow(p)
    /\ SqlizerDecode(RowOf(p).voted_users).ok
    /\ tracked_polls' =
         {IF r.tg_poll_id = p THEN [r EXCEPT !.voted_users = CorruptBlob]
          ELSE r : r \in tracked_polls}
    /\ UNCHANGED <<residents, options, option_calls,
                   chat, inbox, msg_task, poll_answers, answer_task,
                   committed, delete_calls>>

\* the statements of handle_poll_answer's transaction that query the store
StoreFaults == {"find", "update", "non_voters"}

\* Transaction that keeps the writes of a closure that returned an error
TransactionNoRollback(before, after, ok) == after

\* SqliteConnection::transaction (lines 183, 214): the writes of the
\* closure are committed when it returns Ok and rolled back when it
\* returns Err
Transaction(before, after, ok) == IF ok THEN after ELSE before

\* lines 183-214 when the store fails the query of db_find_poll (184), of
\* the update (204) or of db_find_non_voters (206): `?` leaves the closure
\* and then, at line 214, the handler
AnswerTxnFails(j, fault) ==
    /\ answer_task[j].pc = "txn"
    /\ LET poll_answer == poll_answers[j]
           db_poll == DbFindPoll(poll_answer.poll_id)
       IN  /\ fault # "find" => db_poll.status = "Some"
           /\ LET written ==
                      IF fault = "non_voters"
                      THEN UpdateVotedUsers(
                               tracked_polls, poll_answer.poll_id,
                               NewVotedUsers(db_poll.voted_users, poll_answer))
                      ELSE tracked_polls
              IN  tracked_polls' = Transaction(tracked_polls, written, FALSE)
    /\ answer_task' =
         [answer_task EXCEPT ![j] = [Finish(@, "Err") EXCEPT !.at = fault]]
    /\ UNCHANGED <<residents, options, option_calls, chat, inbox, msg_task,
                   poll_answers, committed, delete_calls>>

NextFault ==
    \/ \E m \in BaseMessages : Deliver(m)
    \/ TaskStep
    \/ \E p \in 1..MaxMessages : CorruptRoster(p)
    \/ \E j \in AnswerIds : \E fault \in StoreFaults : AnswerTxnFails(j, fault)

SpecFault == Init /\ [][NextFault]_vars

\* C6: a handle_poll_answer transaction that cannot load the row (its
\* voted_users does not deserialize) leaves every row and every message as
\* they are and makes the task return the error: the task is done, so no
\* status report is edited.
C6_DecodeErrorPropagates ==
    [][\A j \in AnswerIds :
          ( /\ AnswerTxn(j)
            /\ DbFindPoll(poll_answers[j].poll_id).status = "Err" )
          => /\ tracked_polls' = tracked_polls
             /\ chat' = chat
             /\ committed' = committed
             /\ answer_task'[j].pc = "done"
             /\ answer_task'[j].result = "Err"
             /\ answer_task'[j].text = <<>>]_vars

\* C6 witness: an answer task returned the error of its transaction while
\* the row of its poll holds a roster that does not deserialize.
C6_Witness ==
    \E j \in Delivered :
        /\ answer_task[j].pc = "done"
        /\ answer_task[j].at = "txn"
        /\ answer_task[j].result = "Err"
        /\ HasRow(poll_answers[j].poll_id)
        /\ ~SqlizerDecode(RowOf(poll_answers[j].poll_id).voted_users).ok

\* C7: a handle_poll_answer transaction that finds no row for the poll id
\* changes no row, creates none, sends and edits no message, and makes the
\* task return Ok.
C7_UnknownPollNoOp ==
    [][\A j \in AnswerIds :
          ( /\ AnswerTxn(j)
            /\ ~HasRow(poll_answers[j].poll_id) )
          => /\ tracked_polls' = tracked_polls
             /\ options' = options
             /\ chat' = chat
             /\ committed' = committed
             /\ answer_task'[j].pc = "done"
             /\ answer_task'[j].result = "Ok"]_vars

\* C7 witness: an answer task returned Ok from its transaction without
\* having found a row, for a poll that is in the chat and has no row.
C7_Witness ==
    \E j \in Delivered :
        /\ answer_task[j].pc = "done"
        /\ answer_task[j].at = "txn"
        /\ answer_task[j].result = "Ok"
        /\ ~answer_task[j].found
        /\ poll_answers[j].poll_id \in LivePolls
        /\ ~HasRow(poll_answers[j].poll_id)

\* C8: no step of hande_poll_forward changes a row of tracked_polls or of
\* options, whether the poll is known or not; for a poll without a row the
\* text is exactly "Unknown poll", and the reply sent carries the text.
C8_ForwardReadOnly ==
    [][\A k \in MessageIds :
          /\ ForwardTxn(k) =>
                /\ tracked_polls' = tracked_polls
                /\ options' = options
                /\ ~HasRow(inbox[k].poll_id) =>
                      msg_task'[k].text = <<"Unknown poll">>
          /\ ForwardReply(k) =>
                /\ tracked_polls' = tracked_polls
                /\ options' = options
                /\ ReplyId(k) \in DOMAIN chat' =>
                      /\ chat'[ReplyId(k)].text = msg_task[k].text
                      /\ chat'[ReplyId(k)].reply_to = OrigId(k)]_vars

\* C8 witness: the reply "Unknown poll" to a forward is in the chat, and a
\* row exists that the forward did not touch.
C8_Witness ==
    \E k \in MessageIds :
        /\ msg_task[k].kind = "Forward"
        /\ msg_task[k].result = "Ok"
        /\ ReplyId(k) \in DOMAIN chat
        /\ chat[ReplyId(k)].text = <<"Unknown poll">>
        /\ tracked_polls # {}

\* the roster stored in `rows` for poll p
RosterIn(rows, p) ==
    SqlizerDecode((CHOOSE r \in rows : r.tg_poll_id = p).voted_users).value

\* the handles mentioned in a text, and the handles of a list of non-voters
MentionedHandles(text) ==
    {text[i + 1] : i \in {i \in 1..(Len(text) - 1) : text[i] \in {"@", " @"}}}
Handles(non_voters) ==
    {non_voters[i].user.username :
        i \in {i \in DOMAIN non_voters :
                 /\ non_voters[i].user.present
                 /\ non_voters[i].user.username # ""}}

\* the text states the count of voters, then the count of pending voters
StatesCounts(text, voters, pending) ==
    \E i, j \in DOMAIN text :
        /\ i < j
        /\ text[i] = ToString(voters)
        /\ text[j] = ToString(pending)

\* the rendering rule of the spec
FollowsRule(text, non_voters, voters) ==
    IF non_voters = <<>> THEN text = <<"Everyone voted!">>
    ELSE /\ StatesCounts(text, voters, Len(non_voters))
         /\ MentionedHandles(text) = Handles(non_voters)

\* the rendering of the forwarded-poll reply
ListsMentionsOnly(text, non_voters) ==
    IF non_voters = <<>> THEN text = <<"Everyone voted!">>
    ELSE /\ MentionedHandles(text) = Handles(non_voters)
         /\ Len(text) = 2 * Cardinality(Handles(non_voters))

\* the status-report edit of the vote path: rendered from the roster the
\* transaction wrote, and sent as rendered
AnswerReportFollowsRule(j) ==
    /\ (AnswerTxn(j) /\ HasRow(poll_answers[j].poll_id)) =>
          LET roster == RosterIn(tracked_polls', poll_answers[j].poll_id) IN
          FollowsRule(answer_task'[j].text, DbFindNonVoters(roster),
                      Len(roster))
    /\ (AnswerEdit(j) /\ answer_task'[j].result = "Ok") =>
          chat'[answer_task[j].info_message_id].text = answer_task[j].text

\* C9 as stated: the reply of the forwarded-poll path and the status-report
\* edit of the vote path both are "Everyone voted!" when nobody is pending,
\* and otherwise state the counts of voters and of pending voters and
\* mention exactly the non-voters that have a handle.
C9_Original ==
    [][/\ \A k \in MessageIds :
            (ForwardTxn(k) /\ HasRow(inbox[k].poll_id)) =>
               LET roster == RosterIn(tracked_polls, inbox[k].poll_id) IN
               FollowsRule(msg_task'[k].text, DbFindNonVoters(roster),
                           Len(roster))
       /\ \A j \in AnswerIds : AnswerReportFollowsRule(j)]_vars

\* C9 amended: both texts are "Everyone voted!" when nobody is pending;
\* otherwise the status-report edit of the vote path states the counts of
\* voters and of pending voters and mentions exactly the non-voters that
\* have a handle, while the reply of the forwarded-poll path consists of
\* the mentions of the non-voters that have a handle and states no count.
C9_ReportTexts ==
    [][/\ \A k \in MessageIds :
            (ForwardTxn(k) /\ HasRow(inbox[k].poll_id)) =>
               LET roster == RosterIn(tracked_polls, inbox[k].poll_id) IN
               ListsMentionsOnly(msg_task'[k].text, DbFindNonVoters(roster))
       /\ \A j \in AnswerIds : AnswerReportFollowsRule(j)]_vars

\* C9 witness: a forward of a poll with pending voters was answered with
\* mentions, and a status report was edited to a text with counts.
C9_Witness ==
    /\ \E k \in MessageIds :
          /\ ReplyId(k) \in DOMAIN chat
          /\ chat[ReplyId(k)].text = <<" @", "user1">>
    /\ \E k \in MessageIds :
          /\ InfoId(k) \in DOMAIN chat
          /\ Len(chat[InfoId(k)].text) > 1
          /\ chat[InfoId(k)].text[1] = "Voted "

\* the conditions C10 lists for a message to be relayed
C10_Relayable(m) ==
    /\ m.media = "poll"
    /\ m.forward = "none"
    /\ m.total_voter_count = 0
    /\ ~m.is_closed
    /\ ~m.is_anonymous
    /\ m.poll_type = "regular"
    /\ m.from # NoUser
    /\ m.role \in {"Resident", "Admin"}

\* C10: a message is handled by intercept_new_poll only if it is a poll
\* that is no forward, has no votes, is open, not anonymous and regular,
\* and whose sender is a Resident at least; for a message failing one of
\* these no poll is republished, the message is not deleted (no deletion
\* is even tried) and no TrackedPoll row is created.
C10_RelayedOnlyIfEligible ==
    \A k \in 1..Len(inbox) :
        /\ msg_task[k].kind = "New" => C10_Relayable(inbox[k])
        /\ ~C10_Relayable(inbox[k]) =>
              /\ NewPollId(k) \notin DOMAIN chat
              /\ delete_calls[NewPollId(k)] = 0
              /\ OrigId(k) \in DOMAIN chat
              /\ delete_calls[OrigId(k)] = 0
              /\ InfoId(k) \notin DOMAIN chat
              /\ ~HasRow(PollIdOf(k))

\* C10 witness: a poll of an Admin was relayed to the end, and a closed
\* poll of a Resident was left alone.
C10_Witness ==
    \E k, i \in 1..Len(inbox) :
        /\ inbox[k].role = "Admin"
        /\ msg_task[k].kind = "New"
        /\ HasRow(PollIdOf(k))
        /\ OrigId(k) \notin DOMAIN chat
        /\ inbox[i].media = "poll"
        /\ inbox[i].is_closed
        /\ inbox[i].role = "Resident"
        /\ msg_task[i].kind = "None"
        /\ OrigId(i) \in DOMAIN chat

\* the conditions C11 lists for a forwarded poll to be answered
C11_Reportable(m) ==
    /\ m.media = "poll"
    /\ m.forward = "me"
    /\ m.private
    /\ m.from # NoUser
    /\ m.role \in {"Resident", "Admin"}

\* C11: a forwarded poll is handled by hande_poll_forward, and a reply to
\* it is sent, only if the forward's original sender is the bot, the chat
\* is private and the forwarding sender is a Resident at least; a
\* forwarded poll failing one of these gets no reply and no task, and no
\* forwarded poll is ever handled by intercept_new_poll: nothing is
\* republished for it, it is not deleted and no row is created for it.
C11_ForwardAnsweredOnlyIfEligible ==
    \A k \in 1..Len(inbox) :
        /\ msg_task[k].kind = "Forward" => C11_Reportable(inbox[k])
        /\ ReplyId(k) \in DOMAIN chat => C11_Reportable(inbox[k])
        /\ (inbox[k].forward # "none" /\ ~C11_Reportable(inbox[k])) =>
              msg_task[k].kind = "None"
        /\ inbox[k].forward # "none" =>
              /\ msg_task[k].kind # "New"
              /\ NewPollId(k) \notin DOMAIN chat
              /\ InfoId(k) \notin DOMAIN chat
              /\ OrigId(k) \in DOMAIN chat
              /\ delete_calls[OrigId(k)] = 0
              /\ ~HasRow(PollIdOf(k))

\* C11 witness: the forward of a tracked poll by an Admin in private was
\* answered with the non-voter report.
C11_Witness ==
    \E k \in 1..Len(inbox) :
        /\ inbox[k].forward = "me"
        /\ inbox[k].private
        /\ inbox[k].role = "Admin"
        /\ HasRow(inbox[k].poll_id)
        /\ msg_task[k].kind = "Forward"
        /\ msg_task[k].result = "Ok"
        /\ ReplyId(k) \in DOMAIN chat
        /\ chat[ReplyId(k)].reply_to = OrigId(k)
        /\ chat[ReplyId(k)].text # <<"Unknown poll">>

(***************************************************************************)
(* Calls on the option store: a second specification.                      *)
(***************************************************************************)
\* the record of a call: the operation, its key and argument, whether the
\* store executed the query, and what the call returned
OptionCall(op, key, arg, query_ok, result) ==
    [op |-> op, key |-> key, arg |-> arg, query_ok |-> query_ok,
     result |-> result]

\* Ok(()) or the error of the query
OptionResult(query_ok) ==
    [status |-> IF query_ok THEN "Ok" ELSE "Err", value |-> <<>>]

\* ConfigOptionDef::get
OptionGet(key) ==
    /\ Len(option_calls) < MaxOptionCalls
    /\ \E query_ok \in BOOLEAN :
         option_calls' =
           Append(option_calls,
                  OptionCall("get", key, <<>>, query_ok,
                             ConfigOptionGet(options, key, query_ok)))
    /\ UNCHANGED <<residents, tracked_polls, options, chat, inbox, msg_task,
                   poll_answers, answer_task, committed, delete_calls>>

\* ConfigOptionDef::set, lines 62-76: to_string of these types cannot fail
OptionSet(key, value) ==
    /\ Len(option_calls) < MaxOptionCalls
    /\ \E query_ok \in BOOLEAN :
         /\ options' =
              IF query_ok
              THEN ReplaceInto(options,
                               [name |-> key, value |-> ToJson(key, value)])
              ELSE options
         /\ option_calls' =
              Append(option_calls,
                     OptionCall("set", key, <<value>>, query_ok,
                                OptionResult(query_ok)))
    /\ UNCHANGED <<residents, tracked_polls, chat, inbox, msg_task,
                   poll_answers,
                   answer_task, committed, delete_calls>>

\* ConfigOptionDef::unset, lines 79-89
OptionUnset(key) ==
    /\ Len(option_calls) < MaxOptionCalls
    /\ \E query_ok \in BOOLEAN :
         /\ options' = IF query_ok THEN DeleteFrom(options, key) ELSE options
         /\ option_calls' =
              Append(option_calls,
                     OptionCall("unset", key, <<>>, query_ok,
                                OptionResult(query_ok)))
    /\ UNCHANGED <<residents, tracked_polls, chat, inbox, msg_task,
                   poll_answers,
                   answer_task, committed, delete_calls>>

\* a row left by an older version of the program: its value does not
\* deserialize as the type now bound to the key
StaleOption(key) ==
    /\ Len(option_calls) < MaxOptionCalls
    /\ options' = ReplaceInto(options, [name |-> key, value |-> StaleValue])
    /\ option_calls' =
         Append(option_calls, OptionCall("stale", key, <<>>, TRUE,
                                          OptionResult(TRUE)))
    /\ UNCHANGED <<residents, tracked_polls, chat, inbox, msg_task,
                   poll_answers,
                   answer_task, committed, delete_calls>>

NextOptions ==
    \E key \in OptionKeys :
        \/ OptionGet(key)
        \/ \E value \in OptionValues(key) : OptionSet(key, value)
        \/ OptionUnset(key)
        \/ StaleOption(key)

SpecOptions == Init /\ [][NextOptions]_vars

\* the calls that changed, or may have changed, the row of a key
WritesOn(key) ==
    SelectSeq(option_calls,
              LAMBDA call : /\ call.key = key
                            /\ call.op \in {"set", "unset", "stale"}
                            /\ call.query_ok)

\* C12: get returns an error only when the store could not execute the
\* query; when it could, get returns Ok, with None for a key that was
\* never set and None for a key whose stored value does not deserialize
\* as its type; get changes no row.
C12_GetNeverFailsOnValue ==
    [][\A key \in OptionKeys :
          OptionGet(key) =>
             LET call == option_calls'[Len(option_calls')]
                 rows == {r \in options : r.name = key}
             IN  /\ options' = options
                 /\ call.query_ok => call.result.status = "Ok"
                 /\ (call.query_ok /\ WritesOn(key) = <<>>) =>
                       call.result.value = <<>>
                 /\ ( /\ call.query_ok
                      /\ \E r \in rows : ~FromJson(key, r.value).ok ) =>
                       call.result.value = <<>>]_vars

\* C12 witness: get on a key holding a stale value returned Ok(None), and
\* get on a key never set returned Ok(None).
C12_Witness ==
    \E i, j, n \in DOMAIN option_calls :
        /\ i < j
        /\ option_calls[i].op = "stale"
        /\ option_calls[j].op = "get"
        /\ option_calls[j].key = option_calls[i].key
        /\ option_calls[j].result = [status |-> "Ok", value |-> <<>>]
        /\ option_calls[n].op = "get"
        /\ option_calls[n].key # option_calls[i].key
        /\ option_calls[n].result = [status |-> "Ok", value |-> <<>>]
        /\ \A r \in options : r.name = option_calls[i].key

\* what get shall return for a key: the value of the last set unless an
\* unset followed it
ExpectedOption(key) ==
    LET writes == WritesOn(key) IN
    IF writes = <<>> THEN <<>>
    ELSE writes[Len(writes)].arg

\* last write wins, one row per key at most
C13_LastWriteWins ==
    \A key \in OptionKeys :
        /\ Cardinality({r \in options : r.name = key}) <= 1
        /\ (\A i \in DOMAIN option_calls :
                option_calls[i].key = key => option_calls[i].op # "stale")
           => ConfigOptionGet(options, key, TRUE)
                = [status |-> "Ok", value |-> ExpectedOption(key)]

\* set and unset on one key leave the rows of the other keys as they are,
\* and unset on a key without a row returns Ok and changes nothing
C13_Frame ==
    \A key \in OptionKeys :
        ( \/ \E value \in OptionValues(key) : OptionSet(key, value)
          \/ OptionUnset(key) )
        => /\ {r \in options' : r.name # key} = {r \in options : r.name # key}
           /\ ( /\ OptionUnset(key)
                /\ option_calls'[Len(option_calls')].query_ok
                /\ \A r \in options : r.name # key )
              => /\ options' = options
                 /\ option_calls'[Len(option_calls')].result.status = "Ok"

\* C13: after any sequence of set and unset calls on a key, get returns
\* the value of the most recent set when no unset followed it, and None
\* when the key was never set or the most recent call was unset; a key
\* has one row at most; unset on an absent key succeeds and changes
\* nothing; a call on one key leaves the rows of the other keys unchanged.
C13_SetUnsetGet == []C13_LastWriteWins /\ [][C13_Frame]_vars

\* C13 witness: a key was set twice to different values and reads as the
\* second, from its one row, and unset of the other key, never set, has
\* returned Ok.
C13_Witness ==
    \E i, j, n \in DOMAIN option_calls :
        /\ i < j
        /\ option_calls[i].op = "set" /\ option_calls[i].query_ok
        /\ option_calls[j].op = "set" /\ option_calls[j].query_ok
        /\ option_calls[i].key = option_calls[j].key
        /\ option_calls[i].arg # option_calls[j].arg
        /\ ConfigOptionGet(options, option_calls[j].key, TRUE).value
             = option_calls[j].arg
        /\ option_calls[n].op = "unset"
        /\ option_calls[n].key # option_calls[j].key
        /\ option_calls[n].result.status = "Ok"
        /\ Cardinality(options) = 1

\* the poll answer handled by task j repeats the one whose transaction was
\* the last to update the row of its poll
Replays(j) ==
    LET before == CommittedOn(poll_answers[j].poll_id) IN
    /\ before # <<>>
    /\ poll_answers[before[Len(before)]] = poll_answers[j]

\* C14: a handle_poll_answer transaction for the same poll, user and
\* option_ids as the transaction that last updated the row leaves the
\* stored roster as that transaction left it, for a vote (the user is in
\* the roster already) and for a retraction (the user is absent already).
C14_ReplayIdempotent ==
    [][\A j \in AnswerIds :
          (AnswerTxn(j) /\ HasRow(poll_answers[j].poll_id) /\ Replays(j))
          => /\ tracked_polls' = tracked_polls
             /\ committed' = Append(committed, j)]_vars

\* C14 witness: the same vote was applied twice in a row, and the roster
\* holds the voter once.
C14_Witness ==
    /\ Len(committed) = 2
    /\ poll_answers[committed[1]] = poll_answers[committed[2]]
    /\ poll_answers[committed[1]].option_ids # <<>>
    /\ RosterIn(tracked_polls, poll_answers[committed[1]].poll_id)
         = <<poll_answers[committed[1]].user>>

\* C15: when the store fails the row read, the roster write or the
\* non-voter query of a handle_poll_answer transaction, every row is as it
\* was before the call (the roster write is rolled back), no message is
\* edited, and the task returns the error: it is done, so it never edits
\* the status report.
C15_StoreErrorAborts ==
    [][\A j \in AnswerIds : \A fault \in StoreFaults :
          AnswerTxnFails(j, fault)
          => /\ tracked_polls' = tracked_polls
             /\ chat' = chat
             /\ committed' = committed
             /\ answer_task'[j].pc = "done"
             /\ answer_task'[j].result = "Err"
             /\ answer_task'[j].text = <<>>]_vars

\* C15 witness: the vote of a user on a tracked poll failed on the
\* non-voter query, after the roster write, and the roster is without the
\* user.
C15_Witness ==
    \E j \in Delivered :
        /\ answer_task[j].pc = "done"
        /\ answer_task[j].at = "non_voters"
        /\ answer_task[j].result = "Err"
        /\ poll_answers[j].option_ids # <<>>
        /\ HasRow(poll_answers[j].poll_id)
        /\ SqlizerDecode(RowOf(poll_answers[j].poll_id).voted_users).ok
        /\ poll_answers[j].user
             \notin Range(RosterIn(tracked_polls, poll_answers[j].poll_id))

(***************************************************************************)
(* The residents table changes: a third specification.                     *)
(***************************************************************************)
\* a residency ends: its row gets an end_date (the table is kept by the
\* residents administration of the bot, the polls module only reads it)
EndResidency(i) ==
    /\ residents[i].end_date = "None"
    /\ residents' = [residents EXCEPT ![i].end_date = "Some"]
    /\ UNCHANGED <<tracked_polls, options, option_calls, chat, inbox,
                   msg_task, poll_answers, answer_task, committed,
                   delete_calls>>

NextRoster ==
    \/ \E m \in BaseMessages : Deliver(m)
    \/ TaskStep
    \/ \E i \in DOMAIN Residents : EndResidency(i)

SpecRoster == Init /\ [][NextRoster]_vars

\* the users whose residency has not ended
EligibleResidents ==
    {residents[i].tg_id :
        i \in {i \in DOMAIN residents : residents[i].end_date = "None"}}

NonVoterIds(non_voters) == {non_voters[i].tg_id : i \in DOMAIN non_voters}

\* C16 as stated: for the roster of every tracked poll db_find_non_voters
\* returns exactly the eligible residents that are not in the roster, each
\* once, and nobody when every eligible resident is in the roster.
C16_Original ==
    \A r \in tracked_polls :
        LET roster == SqlizerDecode(r.voted_users).value
            non_voters == DbFindNonVoters(roster)
        IN  /\ NonVoterIds(non_voters) = EligibleResidents \ Range(roster)
            /\ Len(non_voters) = Cardinality(NonVoterIds(non_voters))
            /\ EligibleResidents \subseteq Range(roster) => non_voters = <<>>

\* the messages of `after` that are not in `before` or differ from it
Touched(before, after) ==
    {i \in DOMAIN after : i \notin DOMAIN before \/ after[i] # before[i]}

\* C17: the transaction of handle_poll_answer for a known poll touches no
\* message and takes the report's location from the row and the text from
\* the roster it wrote; the step after it sends no message and touches
\* one message at most, the one at the location stored in the row, whose
\* text becomes the text rendered; the task then is done.  A status report
\* enters the chat only by intercept_new_poll's reply, once per poll.
C17_EditsStoredReport ==
    [][/\ \A j \in AnswerIds :
            /\ (AnswerTxn(j) /\ HasRow(poll_answers[j].poll_id)) =>
                  LET p == poll_answers[j].poll_id
                      roster == RosterIn(tracked_polls', p)
                  IN  /\ chat' = chat
                      /\ answer_task'[j].info_chat_id = RowOf(p).info_chat_id
                      /\ answer_task'[j].info_message_id
                           = RowOf(p).info_message_id
                      /\ answer_task'[j].text
                           = AnswerText(DbFindNonVoters(roster), Len(roster))
            /\ AnswerEdit(j) =>
                  LET id == MessageIdFrom(answer_task[j].info_message_id) IN
                  /\ DOMAIN chat' = DOMAIN chat
                  /\ Touched(chat, chat') \subseteq {id}
                  /\ chat' # chat =>
                        /\ chat'[id] = [chat[id] EXCEPT
                                           !.text = answer_task[j].text]
                        /\ chat[id].chat_id = answer_task[j].info_chat_id
                  /\ answer_task'[j].pc = "done"
       /\ \A k \in MessageIds :
            /\ (InfoId(k) \in DOMAIN chat' /\ InfoId(k) \notin DOMAIN chat)
                  => ReplyPollInfo(k)
            /\ ReplyPollInfo(k) => InfoId(k) \notin DOMAIN chat]_vars

\* C17 witness: a vote on a tracked poll has been handled to the end: the
\* status report of the poll shows counts, and the bot has sent no text
\* message but that report.
C17_Witness ==
    \E j \in Delivered :
        LET p == poll_answers[j].poll_id IN
        /\ answer_task[j].pc = "done"
        /\ answer_task[j].at = "edit"
        /\ answer_task[j].result = "Ok"
        /\ HasRow(p)
        /\ chat[RowOf(p).info_message_id].text[1] = "Voted "
        /\ {i \in DOMAIN chat : chat[i].from = "bot" /\ chat[i].kind = "text"}
             = {RowOf(p).info_message_id}

\* C18 as stated: the roster of every tracked poll holds eligible
\* residents only, and the count of voters and the count of pending voters
\* of its report add up to the number of eligible residents.
C18_Original ==
    \A r \in tracked_polls :
        LET roster == SqlizerDecode(r.voted_users).value IN
        /\ Range(roster) \subseteq EligibleResidents
        /\ Len(roster) + Len(DbFindNonVoters(roster))
             = Cardinality(EligibleResidents)

\* the answer tasks of poll p: all of them returned Ok
AllAnswersCompleted(p) ==
    \A j \in Delivered :
        poll_answers[j].poll_id = p =>
            /\ answer_task[j].pc = "done"
            /\ answer_task[j].result = "Ok"

\* C19 as stated: once every poll-answer handler of a tracked poll has
\* returned Ok, and at least one of them has updated the row, the status
\* report of the poll shows the text rendered from the stored roster.
C19_Original ==
    \A p \in 1..MaxMessages :
        (HasRow(p) /\ CommittedOn(p) # <<>> /\ AllAnswersCompleted(p))
        => LET roster == RosterIn(tracked_polls, p) IN
           chat[MessageIdFrom(RowOf(p).info_message_id)].text
             = AnswerText(DbFindNonVoters(roster), Len(roster))

\* C20 as stated: once the relay of a poll has inserted the row and
\* returned Ok and every poll-answer handler of the poll has returned Ok,
\* the roster holds every user whose only poll answer on the poll is a
\* vote, also when that answer was handled before the row was inserted.
C20_Original ==
    \A k \in 1..Len(inbox) :
        LET p == PollIdOf(k) IN
        ( /\ msg_task[k].kind = "New"
          /\ msg_task[k].pc = "done"
          /\ msg_task[k].result = "Ok"
          /\ HasRow(p)
          /\ AllAnswersCompleted(p) )
        => \A j \in Delivered :
              ( /\ poll_answers[j].poll_id = p
                /\ poll_answers[j].option_ids # <<>>
                /\ \A i \in Delivered \ {j} :
                      poll_answers[i].poll_id = p
                        => poll_answers[i].user # poll_answers[j].user )
              => DbUserIdFrom(poll_answers[j].user)
                   \in Range(RosterIn(tracked_polls, p))

\* a row without its roster
Fixed(r) ==
    [tg_poll_id |-> r.tg_poll_id, creator_id |-> r.creator_id,
     info_chat_id |-> r.info_chat_id, info_message_id |-> r.info_message_id]

\* C21: a step of handle_poll_answer for poll p leaves the number of rows
\* as it is, leaves every row of another poll as it is, and leaves
\* creator_id, info_chat_id and info_message_id of the row of p as they
\* are; and no step of any handler removes a row: the row of a poll, once
\* there, stays with the same creator and report location.
C21_OnlyRosterChanges ==
    [][/\ \A j \in AnswerIds :
            (AnswerTxn(j) \/ AnswerEdit(j)) =>
               LET p == poll_answers[j].poll_id IN
               /\ Cardinality(tracked_polls') = Cardinality(tracked_polls)
               /\ {r \in tracked_polls' : r.tg_poll_id # p}
                    = {r \in tracked_polls : r.tg_poll_id # p}
               /\ {Fixed(r) : r \in tracked_polls'}
                    = {Fixed(r) : r \in tracked_polls}
       /\ {Fixed(r) : r \in tracked_polls}
            \subseteq {Fixed(r) : r \in tracked_polls'}]_vars

\* C21 witness: two polls are tracked; votes have rewritten the roster of
\* one of them, and the row of the other is as it was inserted.
C21_Witness ==
    \E k, i \in 1..Len(inbox) :
        /\ k # i
        /\ HasRow(PollIdOf(k))
        /\ HasRow(PollIdOf(i))
        /\ RowOf(PollIdOf(i)) = NewTrackedPoll(i)
        /\ Fixed(RowOf(PollIdOf(k))) = Fixed(NewTrackedPoll(k))
        /\ RosterIn(tracked_polls, PollIdOf(k)) # <<>>
        /\ CommittedOn(PollIdOf(k)) # <<>>
        /\ CommittedOn(PollIdOf(i)) = <<>>

====
